---- MODULE Spec2Model ----
(***************************************************************************)
(* State-machine model of pyiceberg.catalog.rest.RestCatalog: construction *)
(* (bootstrap session, config fetch and merge, final session), the         *)
(* tenacity retry wrapper around every catalog operation, the token        *)
(* refresh run by the retry hook, and the status-code to exception mapping *)
(* of _handle_non_200_response.                                            *)
(*                                                                         *)
(* Spec          construction, then operations of a single caller          *)
(* SpecConstruct construction alone, over wider properties and documents   *)
(* SpecConc      two callers on one constructed client                     *)
(* SpecCodec     the identifier codec, the credential split and the        *)
(*               identifier of a returned table                            *)
(***************************************************************************)
EXTENDS Integers, Sequences, FiniteSets, TLC

VARIABLES
    pc,        \* position of the single caller: see PcValues
    ctx,       \* "boot": session of _fetch_config, "final": self._session, "ready": constructed
    caller,    \* the properties passed to __init__ (never changes)
    props,     \* self.properties
    auth,      \* session.headers["Authorization"] of the session in use
    entry,     \* self.properties at the entry of the running _create_session
    granted,   \* access token of the last successful token response
    call,      \* the running public operation and its retry-wrapper frames
    hookLevel, \* the wrapper whose before_sleep hook is running
    trace,     \* events of construction, then of the running call
    last,      \* what _handle_non_200_response did with the last error response
    outcome,   \* how the last call ended
    snap,      \* stored token and Authorization header when the call began
    docs,      \* the config documents the server may answer the config GET with
    served,    \* the config document it answered with
    uri,       \* self.uri
    cert,      \* session.cert of the session in use
    args,      \* the identifier arguments of the running call
    input,     \* argument of the pure function under study (codec specifications)
    output,    \* what that function returned or raised
    threads    \* the callers of the two-caller specification

vars == <<pc, ctx, caller, props, auth, entry, granted, call, hookLevel,
          trace, last, outcome, snap, docs, served, uri, cert, args, input,
          output, threads>>

\* what the single-caller actions never touch
others == <<docs, input, output, threads>>

PcValues == {"create", "tokwait", "resolved", "cfgsend", "cfgwait", "failed",
             "idle", "send", "await", "hook", "done"}

----------------------------------------------------------------------------
(* Values *)

NoVal == "<none>"            \* a key that is absent from a dict / a header not set

TOKEN == "token"
CREDENTIAL == "credential"
URI == "uri"
HEADER_AUTH == "header.Authorization"
CERT == "cert"
KEY == "key"
\* properties that mean nothing to the client: they only take part in the merge
GenericKeys == {"a", "b", "c"}
Keys == {URI, TOKEN, CREDENTIAL, HEADER_AUTH, CERT, KEY} \cup GenericKeys

BEARER_PREFIX == "Bearer"

\* Python truthiness of an optional string: absent and "" are both falsy
Truthy(v) == v # NoVal /\ v # ""

\* f"{BEARER_PREFIX} {token}"
Bearer(token) == BEARER_PREFIX \o " " \o token

\* access tokens the token endpoint may return
AccessTokens == {"s1", "s2"}

\* properties a caller may pass: the uri is mandatory, the rest optional; the
\* credential values stand for credentials with at most one colon
CallerProps ==
    { [k \in Keys |-> CASE k = URI -> "u1"
                        [] k = TOKEN -> t
                        [] k = CREDENTIAL -> c
                        [] k = HEADER_AUTH -> h
                        [] OTHER -> NoVal] :
        t \in {NoVal, "tc"}, c \in {NoVal, "cc"}, h \in {NoVal, "Basic x"} }

Empty == [k \in Keys |-> NoVal]

\* config documents the server may answer with: {defaults, overrides}
ConfigDocs ==
    { [defaults |-> Empty, overrides |-> Empty],
      [defaults |-> [Empty EXCEPT ![CREDENTIAL] = "cd", ![URI] = "u0"],
       overrides |-> Empty],
      [defaults |-> Empty, overrides |-> [Empty EXCEPT ![URI] = "u2", ![TOKEN] = "to"]] }

NoDoc == [defaults |-> Empty, overrides |-> Empty, none |-> TRUE]

\* the inputs of the construction specification: the caller may also pass
\* generic properties and the entries of ssl.client
ConstructCallerProps ==
    { [k \in Keys |-> CASE k = URI -> "u1"
                        [] k = TOKEN -> t
                        [] k = CREDENTIAL -> c
                        [] k = CERT -> ce
                        [] k = KEY -> ke
                        [] k \in g -> "caller"
                        [] OTHER -> NoVal] :
        t \in {NoVal, "tc"}, c \in {NoVal, "cc"}, ce \in {NoVal, "cert.pem"},
        ke \in {NoVal, "key.pem"}, g \in SUBSET GenericKeys }

\* and the server may give defaults and overrides for the generic properties,
\* and a default token
ConstructDocs ==
    { [defaults |-> [k \in Keys |-> IF k \in gd THEN "default" ELSE d.defaults[k]],
       overrides |-> [k \in Keys |-> IF k \in go THEN "override" ELSE d.overrides[k]]] :
        d \in ConfigDocs \cup {[defaults |-> [Empty EXCEPT ![TOKEN] = "td"],
                                overrides |-> Empty]},
        gd \in {{}, {"a", "b"}, GenericKeys},
        go \in {{}, {"a"}, GenericKeys} }

\* HTTP error statuses: every status the mapping names, one other 4xx, one other 5xx
ErrorCodes == {400, 401, 403, 404, 409, 418, 419, 422, 500, 501, 502, 503, 504, 507}

\* response bodies of an error response, by what parsing them does:
\*   "generic"   {"error": {"message":..., "type":..., "code":...}}
\*   "oauth"     {"error": "invalid_client", ...}
\*   "object"    a JSON object of neither shape
\*   "nonobject" JSON that is not an object: [], "text", 3, null
\*   "notjson"   text that is not JSON
Bodies == {"generic", "oauth", "object", "nonobject", "notjson"}

----------------------------------------------------------------------------
(* Exceptions *)

AuthorizationExpiredError == "AuthorizationExpiredError"
BadRequestError == "BadRequestError"
CommitFailedException == "CommitFailedException"
CommitStateUnknownException == "CommitStateUnknownException"
ForbiddenError == "ForbiddenError"
NamespaceAlreadyExistsError == "NamespaceAlreadyExistsError"
NoSuchNamespaceError == "NoSuchNamespaceError"
NoSuchTableError == "NoSuchTableError"
OAuthError == "OAuthError"
RESTError == "RESTError"
ServerError == "ServerError"
ServiceUnavailableError == "ServiceUnavailableError"
TableAlreadyExistsError == "TableAlreadyExistsError"
UnauthorizedError == "UnauthorizedError"
NotImplementedError == "NotImplementedError"
TypeError == "TypeError"          \* Python's own: keyword-unpacking a non-mapping
ValueError == "ValueError"        \* Python's own: unpacking a list of the wrong length

----------------------------------------------------------------------------
(* Operations *)

SingleOps == {"create_table", "register_table", "list_tables", "load_table",
              "drop_table", "_commit_table", "create_namespace", "drop_namespace",
              "list_namespaces", "load_namespace_properties",
              "update_namespace_properties"}
CompositeOps == {"purge_table", "rename_table"}
Ops == SingleOps \cup CompositeOps

\* operations taking a table identifier, and operations requiring a namespace
TableOps == {"create_table", "register_table", "load_table", "drop_table", "purge_table"}
NamespaceOps == {"list_tables", "create_namespace", "drop_namespace",
                 "load_namespace_properties", "update_namespace_properties"}

\* the functions that send a request
FETCH_TOKEN == "_fetch_access_token"
FETCH_CONFIG == "_fetch_config"
RequestFns == SingleOps \cup {"rename_table"}

NoHandler == [c \in {} |-> RESTError]

\* the error_handler argument each function passes to _handle_non_200_response
ErrorHandler(fn) ==
    CASE fn = "create_table" -> (409 :> TableAlreadyExistsError)
      [] fn = "register_table" -> (409 :> TableAlreadyExistsError)
      [] fn = "list_tables" -> (404 :> NoSuchNamespaceError)
      [] fn = "load_table" -> (404 :> NoSuchTableError)
      [] fn = "drop_table" -> (404 :> NoSuchTableError)
      [] fn = "rename_table" -> (404 :> NoSuchTableError) @@ (409 :> TableAlreadyExistsError)
      [] fn = "_commit_table" -> (409 :> CommitFailedException)
                                 @@ (500 :> CommitStateUnknownException)
                                 @@ (502 :> CommitStateUnknownException)
                                 @@ (504 :> CommitStateUnknownException)
      [] fn = "create_namespace" -> (404 :> NoSuchNamespaceError)
                                    @@ (409 :> NamespaceAlreadyExistsError)
      [] fn = "drop_namespace" -> (404 :> NoSuchNamespaceError)
      [] fn = "list_namespaces" -> NoHandler
      [] fn = "load_namespace_properties" -> (404 :> NoSuchNamespaceError)
      [] fn = "update_namespace_properties" -> (404 :> NoSuchNamespaceError)
      [] fn = FETCH_TOKEN -> (400 :> OAuthError) @@ (401 :> OAuthError)
      [] fn = FETCH_CONFIG -> NoHandler

----------------------------------------------------------------------------
(* Identifiers.  A Python string is a sequence of characters, a segment is a *)
(* string, a tuple identifier a sequence of segments.                        *)

DOT == "."
NAMESPACE_SEPARATOR == "<0x1F>"
SEMICOLON == ":"

RECURSIVE Split(_, _)
\* str.split(sep): the parts between the occurrences of sep, at least one part
Split(chars, sep) ==
    IF \A i \in 1..Len(chars) : chars[i] # sep
    THEN <<chars>>
    ELSE LET i == CHOOSE j \in 1..Len(chars) :
                      chars[j] = sep /\ \A k \in 1..(j-1) : chars[k] # sep
         IN <<SubSeq(chars, 1, i-1)>> \o Split(SubSeq(chars, i+1, Len(chars)), sep)

RECURSIVE Join(_, _)
\* sep.join(parts)
Join(parts, sep) ==
    IF parts = <<>> THEN <<>>
    ELSE IF Len(parts) = 1 THEN parts[1]
    ELSE parts[1] \o <<sep>> \o Join(Tail(parts), sep)

AllButLast(t) == SubSeq(t, 1, Len(t) - 1)
Last(t) == t[Len(t)]

\* an identifier argument: a str or a tuple of str
StrIdentifier(chars) == [kind |-> "str", chars |-> chars, segs |-> <<>>]
TupleIdentifier(segs) == [kind |-> "tuple", chars |-> <<>>, segs |-> segs]

\* Catalog.identifier_to_tuple (base class): a tuple as it is, a string split
\* at its dots
IdentifierToTuple(identifier) ==
    IF identifier.kind = "tuple" THEN identifier.segs
    ELSE Split(identifier.chars, DOT)

\* Catalog.identifier_to_tuple_without_catalog (base class): a leading catalog
\* name is dropped from an identifier of three or more segments
IdentifierToTupleWithoutCatalog(identifier, name) ==
    LET identifier_tuple == IdentifierToTuple(identifier) IN
    IF Len(identifier_tuple) >= 3 /\ identifier_tuple[1] = name
    THEN Tail(identifier_tuple)
    ELSE identifier_tuple

NoExc(t) == [exc |-> NoVal, tuple |-> t]
Exc(e, t) == [exc |-> e, tuple |-> t]

\* lines 259-264
CheckValidNamespaceIdentifier(identifier) ==
    LET identifier_tuple == IdentifierToTuple(identifier) IN
    IF Len(identifier_tuple) < 1
    THEN Exc(NoSuchNamespaceError, identifier_tuple)
    ELSE NoExc(identifier_tuple)

\* mutant: an identifier of one segment passes
IdentifierToValidatedTuple_OneSegment(identifier) ==
    LET identifier_tuple == IdentifierToTuple(identifier) IN
    IF Len(identifier_tuple) < 1
    THEN Exc(NoSuchTableError, identifier_tuple)
    ELSE NoExc(identifier_tuple)

\* lines 333-337
IdentifierToValidatedTuple(identifier) ==
    LET identifier_tuple == IdentifierToTuple(identifier) IN
    IF Len(identifier_tuple) <= 1
    THEN Exc(NoSuchTableError, identifier_tuple)
    ELSE NoExc(identifier_tuple)

NoSplit(e) == [exc |-> e, namespace |-> <<>>, table |-> <<>>]

\* mutant: the first segment is left out of the namespace path, as line 341
\* does for a TableIdentifier
SplitIdentifierForPath_DropFirst(identifier) ==
    LET v == IdentifierToValidatedTuple(identifier) IN
    IF v.exc # NoVal THEN NoSplit(v.exc)
    ELSE [exc |-> NoVal,
          namespace |-> Join(Tail(AllButLast(v.tuple)), NAMESPACE_SEPARATOR),
          table |-> Last(v.tuple)]

\* lines 339-343, for a str or tuple identifier: namespace is a string
SplitIdentifierForPath(identifier) ==
    LET v == IdentifierToValidatedTuple(identifier) IN
    IF v.exc # NoVal THEN NoSplit(v.exc)
    ELSE [exc |-> NoVal,
          namespace |-> Join(AllButLast(v.tuple), NAMESPACE_SEPARATOR),
          table |-> Last(v.tuple)]

\* lines 345-347: namespace is a tuple of segments; the key "name" is the
\* field table here
SplitIdentifierForJson(identifier) ==
    LET v == IdentifierToValidatedTuple(identifier) IN
    IF v.exc # NoVal THEN NoSplit(v.exc)
    ELSE [exc |-> NoVal, namespace |-> AllButLast(v.tuple), table |-> Last(v.tuple)]

\* lines 340-341, for a TableIdentifier (fields namespace and name): the first
\* segment of the namespace is left out of the path
SplitTableIdentifierForPath(identifier) ==
    [exc |-> NoVal,
     namespace |-> Join(SubSeq(identifier.namespace, 2, Len(identifier.namespace)),
                        NAMESPACE_SEPARATOR),
     table |-> identifier.name]

\* _response_to_table, line 449: the identifier of the Table it returns
ResponseToTable(name, identifier_tuple) ==
    IF name # <<>> THEN <<name>> \o identifier_tuple ELSE identifier_tuple

\* load_table, lines 562-564: the path parameters of its GET
LoadTablePath(name, identifier) ==
    SplitIdentifierForPath(TupleIdentifier(IdentifierToTupleWithoutCatalog(identifier, name)))

\* self.name of the client whose operations are called
CatalogName == <<"c">>

\* identifiers a caller passes to an operation: (), ("t",), ("n", "t"), "t"
CallIdentifiers ==
    { TupleIdentifier(<<>>), TupleIdentifier(<< <<"t">> >>),
      TupleIdentifier(<< <<"n">>, <<"t">> >>), StrIdentifier(<<"t">>) }

\* the identifier arguments of an operation
ArgsOf(op) ==
    IF op = "rename_table" THEN {<<f, t>> : f \in CallIdentifiers, t \in CallIdentifiers}
    ELSE IF op \in TableOps \cup NamespaceOps \cup {"list_namespaces"}
    THEN {<<i>> : i \in CallIdentifiers}
    ELSE {<<>>}

\* what the operation raises while it builds its request from its arguments
\* (lines 495, 531, 551, 562-564, 576-579, 593-596, 641, 651, 679, 693), or
\* NoVal when the request is built
IdentifierError(op, a) ==
    IF op \in {"create_table", "register_table"}
    THEN SplitIdentifierForPath(a[1]).exc
    ELSE IF op \in {"load_table", "drop_table", "purge_table"}
    THEN SplitIdentifierForPath(
             TupleIdentifier(IdentifierToTupleWithoutCatalog(a[1], CatalogName))).exc
    ELSE IF op = "rename_table"
    THEN LET source == SplitIdentifierForJson(
                           TupleIdentifier(IdentifierToTupleWithoutCatalog(a[1], CatalogName)))
         IN IF source.exc # NoVal THEN source.exc
            ELSE SplitIdentifierForJson(a[2]).exc
    ELSE IF op \in NamespaceOps
    THEN CheckValidNamespaceIdentifier(a[1]).exc
    ELSE NoVal

\* the message of an identifier error is built from the identifier alone
IdentifierMsg == [form |-> "identifier", status |-> 0, text |-> NoVal]

----------------------------------------------------------------------------
(* _handle_non_200_response *)

\* mutant: the default mapping is consulted before the overrides
ExceptionFor_DefaultsFirst(code, error_handler) ==
    IF code = 400 THEN BadRequestError
    ELSE IF code = 401 THEN UnauthorizedError
    ELSE IF code = 403 THEN ForbiddenError
    ELSE IF code = 422 THEN RESTError
    ELSE IF code = 419 THEN AuthorizationExpiredError
    ELSE IF code = 501 THEN NotImplementedError
    ELSE IF code = 503 THEN ServiceUnavailableError
    ELSE IF 500 <= code /\ code < 600 THEN ServerError
    ELSE IF code \in DOMAIN error_handler THEN error_handler[code]
    ELSE RESTError

\* mutant: the 5xx range is tested before 501 and 503
ExceptionFor_RangeFirst(code, error_handler) ==
    IF code \in DOMAIN error_handler THEN error_handler[code]
    ELSE IF code = 400 THEN BadRequestError
    ELSE IF code = 401 THEN UnauthorizedError
    ELSE IF code = 403 THEN ForbiddenError
    ELSE IF code = 422 THEN RESTError
    ELSE IF code = 419 THEN AuthorizationExpiredError
    ELSE IF 500 <= code /\ code < 600 THEN ServerError
    ELSE IF code = 501 THEN NotImplementedError
    ELSE IF code = 503 THEN ServiceUnavailableError
    ELSE RESTError

\* lines 355-375: the exception type chosen for a status code
ExceptionFor(code, error_handler) ==
    IF code \in DOMAIN error_handler THEN error_handler[code]
    ELSE IF code = 400 THEN BadRequestError
    ELSE IF code = 401 THEN UnauthorizedError
    ELSE IF code = 403 THEN ForbiddenError
    ELSE IF code = 422 THEN RESTError
    ELSE IF code = 419 THEN AuthorizationExpiredError
    ELSE IF code = 501 THEN NotImplementedError
    ELSE IF code = 503 THEN ServiceUnavailableError
    ELSE IF 500 <= code /\ code < 600 THEN ServerError
    ELSE RESTError

NoMsg == [form |-> "none", status |-> 0, text |-> NoVal]

\* lines 377-397: the message built from the body.  "parsed" is
\* f"{error.type}: {error.message}", "oauth" the OAuth error text; the two
\* fallbacks embed exc.response.status_code and exc.response.text.
\* ErrorResponse / OAuthErrorResponse raise ValidationError for
\* an object of the wrong shape, json() raises JSONDecodeError for text that is
\* not JSON; "escaped" marks the body whose exception neither except clause
\* catches (see BodyEscapes).
MessageFor(exception, code, body) ==
    IF body = "notjson"
    THEN [form |-> "undecodable", status |-> code, text |-> body]
    ELSE IF exception = OAuthError
    THEN IF body = "oauth" THEN [form |-> "oauth", status |-> 0, text |-> NoVal]
         ELSE [form |-> "unexpected", status |-> code, text |-> body]
    ELSE IF body = "generic" THEN [form |-> "parsed", status |-> 0, text |-> NoVal]
         ELSE [form |-> "unexpected", status |-> code, text |-> body]

\* lines 380 and 387: the model is built by unpacking exc.response.json() as
\* keyword arguments; when json() is not a mapping the unpacking itself raises
\* TypeError, which neither except clause catches
BodyEscapes(body) == body = "nonobject"

\* lines 349-399: what the function raises
HandleNon200Response(code, body, error_handler) ==
    LET exception == ExceptionFor(code, error_handler) IN
    IF BodyEscapes(body)
    THEN [selected |-> exception, exc |-> TypeError, msg |-> NoMsg]
    ELSE [selected |-> exception, exc |-> exception,
          msg |-> MessageFor(exception, code, body)]

----------------------------------------------------------------------------
(* Session and token *)

\* lines 466-467: the header is written only for a truthy token
SetAuth(token, old) == IF Truthy(token) THEN Bearer(token) ELSE old

\* mutant: the credential is tested before the initial token
RefreshToken_CredentialFirst(p, a, initial_token) ==
    IF p[CREDENTIAL] # NoVal
    THEN [props |-> p, auth |-> a, wait |-> TRUE]
    ELSE IF initial_token # NoVal
    THEN LET q == [p EXCEPT ![TOKEN] = initial_token]
         IN [props |-> q, auth |-> (IF Truthy(q[TOKEN]) THEN Bearer(q[TOKEN]) ELSE a),
             wait |-> FALSE]
    ELSE [props |-> p,
          auth |-> (IF Truthy(p[TOKEN]) THEN Bearer(p[TOKEN]) ELSE a),
          wait |-> FALSE]

\* mutant: a token already stored counts as the initial token, so a refresh
\* never exchanges the credential of a client that holds a token
RefreshToken_StoredTokenWins(p, a, initial_token) ==
    IF initial_token # NoVal \/ p[TOKEN] # NoVal
    THEN LET q == [p EXCEPT ![TOKEN] = IF initial_token # NoVal THEN initial_token
                                       ELSE p[TOKEN]]
         IN [props |-> q, auth |-> (IF Truthy(q[TOKEN]) THEN Bearer(q[TOKEN]) ELSE a),
             wait |-> FALSE]
    ELSE IF p[CREDENTIAL] # NoVal
    THEN [props |-> p, auth |-> a, wait |-> TRUE]
    ELSE [props |-> p, auth |-> a, wait |-> FALSE]

\* _refresh_token, lines 458-467, up to the token request it may send:
\* wait = TRUE means _fetch_access_token has posted and awaits the answer
RefreshToken(p, a, initial_token) ==
    IF initial_token # NoVal
    THEN LET q == [p EXCEPT ![TOKEN] = initial_token]
         IN [props |-> q, auth |-> SetAuth(q[TOKEN], a), wait |-> FALSE]
    ELSE IF p[CREDENTIAL] # NoVal
    THEN [props |-> p, auth |-> a, wait |-> TRUE]
    ELSE [props |-> p, auth |-> SetAuth(p[TOKEN], a), wait |-> FALSE]

\* mutant: the access token is stored but the header is left as it was
RefreshTokenResume_KeepsHeader(p, a, access_token) ==
    LET q == [p EXCEPT ![TOKEN] = access_token]
    IN [props |-> q, auth |-> a]

\* _refresh_token, lines 463-467, once _fetch_access_token returned access_token
RefreshTokenResume(p, a, access_token) ==
    LET q == [p EXCEPT ![TOKEN] = access_token]
    IN [props |-> q, auth |-> SetAuth(q[TOKEN], a)]

\* _create_session, lines 238-246: the client certificate of the new session.
\* CERT and KEY stand for the entries of properties["ssl"]["client"]; a Session
\* starts with cert = None
SessionCert(p) ==
    IF p[CERT] # NoVal /\ p[KEY] # NoVal THEN <<p[CERT], p[KEY]>>
    ELSE IF Truthy(p[CERT]) THEN <<p[CERT]>>
    ELSE <<>>

\* _config_headers, lines 469-475, on the Authorization header: a header.*
\* property is written over whatever the session holds
ConfigHeaders(p, a) == IF p[HEADER_AUTH] # NoVal THEN p[HEADER_AUTH] ELSE a

\* mutant: the client's own properties are applied last
MergeConfig_PropertiesLast(defaults, p, overrides) ==
    [k \in Keys |-> IF p[k] # NoVal THEN p[k]
                    ELSE IF overrides[k] # NoVal THEN overrides[k]
                    ELSE defaults[k]]

\* _fetch_config, lines 325-328: defaults, then self.properties, then overrides
MergeConfig(defaults, p, overrides) ==
    [k \in Keys |-> IF overrides[k] # NoVal THEN overrides[k]
                    ELSE IF p[k] # NoVal THEN p[k]
                    ELSE defaults[k]]

\* _fetch_access_token, lines 293-301: the client id and the secret of the
\* token request.  client_id is <<>> for None, else <<the id>>.  The two
\* targets of line 294 take a list of exactly two parts.
TokenRequestData(credential) ==
    IF \E i \in 1..Len(credential) : credential[i] = SEMICOLON
    THEN LET parts == Split(credential, SEMICOLON) IN
         IF Len(parts) = 2
         THEN [exc |-> NoVal, client_id |-> <<parts[1]>>, client_secret |-> parts[2]]
         ELSE [exc |-> ValueError, client_id |-> <<>>, client_secret |-> <<>>]
    ELSE [exc |-> NoVal, client_id |-> <<>>, client_secret |-> credential]

----------------------------------------------------------------------------
(* Retry wrapper: the @retry decorator with _RETRY_ARGS *)

StopAfterAttempt == 2

\* mutant: retry on every exception
RetryIf_AnyException(exc) == exc = exc

\* line 130: retry_if_exception_type(AuthorizationExpiredError)
RetryIf(exc) == exc = AuthorizationExpiredError

\* line 131: stop_after_attempt(2)
ShouldStop(attempt) == attempt >= StopAfterAttempt

Ev(e, f, c) == [ev |-> e, fn |-> f, code |-> c]

NoCall == [op |-> NoVal, att |-> 0, inner |-> 0, fn |-> NoVal]
NoOutcome == [kind |-> "none", exc |-> NoVal, msg |-> NoMsg]
NoLast == [fn |-> NoVal, code |-> 0, body |-> NoVal, selected |-> NoVal,
           exc |-> NoVal, msg |-> NoMsg]
NoSnap == [token |-> NoVal, auth |-> NoVal]
NoArgs == <<>>
NoInput == [fn |-> NoVal, identifier |-> [kind |-> NoVal, chars |-> <<>>, segs |-> <<>>],
            credential |-> <<>>, name |-> <<>>]
NoOutput == [kind |-> "none", exc |-> NoVal, path |-> <<>>, namespace |-> <<>>,
             table |-> <<>>, client_id |-> <<>>, client_secret |-> <<>>,
             identifier |-> <<>>, committed |-> FALSE, commit_path |-> <<>>,
             commit_table |-> <<>>]
NoThreads == <<>>

Raised(r) == [kind |-> "raise", exc |-> r.exc, msg |-> r.msg]
Returned == [kind |-> "return", exc |-> NoVal, msg |-> NoMsg]

\* the frame of a public operation at the start of attempt att of its wrapper:
\* purge_table's body is a call of drop_table (lines 587-589), which has a
\* wrapper of its own; rename_table first posts the rename itself
Enter(op, att) ==
    [op |-> op, att |-> att,
     inner |-> IF op = "purge_table" THEN 1 ELSE 0,
     fn |-> IF op = "purge_table" THEN "drop_table" ELSE op]

\* the call ends
Finish(out) ==
    /\ pc' = "done"
    /\ outcome' = out
    /\ UNCHANGED <<call, hookLevel>>

\* an exception leaves the body run by the wrapper of the public operation
RaiseOuter(out) ==
    IF RetryIf(out.exc) /\ ~ShouldStop(call.att)
    THEN /\ pc' = "hook"
         /\ hookLevel' = "outer"
         /\ UNCHANGED <<call, outcome>>
    ELSE Finish(out)

\* an exception leaves the body run by the wrapper of the nested operation;
\* when that wrapper reraises, the exception leaves the outer body
RaiseInner(out) ==
    IF RetryIf(out.exc) /\ ~ShouldStop(call.inner)
    THEN /\ pc' = "hook"
         /\ hookLevel' = "inner"
         /\ UNCHANGED <<call, outcome>>
    ELSE RaiseOuter(out)

Raise(out) == IF call.inner > 0 THEN RaiseInner(out) ELSE RaiseOuter(out)

\* before_sleep returned: the wrapper runs its function again
HookDone ==
    /\ pc' = "send"
    /\ call' = IF hookLevel = "inner"
               THEN [call EXCEPT !.inner = @ + 1]
               ELSE Enter(call.op, call.att + 1)
    /\ UNCHANGED <<hookLevel, outcome>>

\* mutant: the wrapper swallows an exception of before_sleep and runs its
\* function again
HookRaise_RunsAgain(out) == HookDone

\* before_sleep raised: the exception leaves the wrapper that ran the hook
HookRaise(out) == IF hookLevel = "inner" THEN RaiseOuter(out) ELSE Finish(out)

----------------------------------------------------------------------------
(* Construction: __init__, lines 229-232 *)

Init ==
    /\ pc = "create"
    /\ ctx = "boot"
    /\ caller \in CallerProps
    /\ props = caller
    /\ auth = NoVal
    /\ entry = Empty
    /\ granted = NoVal
    /\ call = NoCall
    /\ hookLevel = "outer"
    /\ trace = <<>>
    /\ last = NoLast
    /\ outcome = NoOutcome
    /\ snap = NoSnap
    /\ docs = ConfigDocs
    /\ served = NoDoc
    /\ uri = caller[URI]
    /\ cert = <<>>
    /\ args = NoArgs
    /\ input = NoInput
    /\ output = NoOutput
    /\ threads = NoThreads

\* _create_session, lines 234-248: a new Session, whose headers hold no
\* Authorization, then _refresh_token(session, self.properties.get(TOKEN))
CreateSession ==
    /\ pc = "create"
    /\ LET r == RefreshToken(props, NoVal, props[TOKEN]) IN
       /\ entry' = props
       /\ props' = r.props
       /\ auth' = r.auth
       /\ trace' = trace \o <<Ev("session", ctx, 0)>>
                         \o (IF r.wait THEN <<Ev("req", FETCH_TOKEN, 0)>> ELSE <<>>)
       /\ pc' = IF r.wait THEN "tokwait" ELSE "resolved"
    /\ cert' = SessionCert(props)
    /\ UNCHANGED <<ctx, caller, granted, call, hookLevel, last, outcome, snap>>
    /\ UNCHANGED <<served, uri, args, others>>

\* _fetch_access_token, line 310, and the rest of _refresh_token: the token
\* endpoint answered with an access token
TokenGranted ==
    /\ pc = "tokwait"
    /\ \E access_token \in AccessTokens :
         LET r == RefreshTokenResume(props, auth, access_token) IN
         /\ props' = r.props
         /\ auth' = r.auth
         /\ granted' = access_token
    /\ trace' = Append(trace, Ev("resp", FETCH_TOKEN, 200))
    /\ IF ctx = "ready"
       THEN HookDone
       ELSE pc' = "resolved" /\ UNCHANGED <<call, hookLevel, outcome>>
    /\ UNCHANGED <<ctx, caller, entry, last, snap>>
    /\ UNCHANGED <<served, uri, cert, args, others>>

\* _fetch_access_token, lines 305-308: the token endpoint answered with an error
TokenRefused ==
    /\ pc = "tokwait"
    /\ \E code \in ErrorCodes, body \in Bodies :
         LET r == HandleNon200Response(code, body, ErrorHandler(FETCH_TOKEN)) IN
         /\ last' = [fn |-> FETCH_TOKEN, code |-> code, body |-> body,
                     selected |-> r.selected, exc |-> r.exc, msg |-> r.msg]
         /\ trace' = Append(trace, Ev("resp", FETCH_TOKEN, code))
         /\ IF ctx = "ready"
            THEN HookRaise(Raised(r))
            ELSE pc' = "failed" /\ outcome' = Raised(r) /\ UNCHANGED <<call, hookLevel>>
    /\ UNCHANGED <<ctx, caller, props, auth, entry, granted, snap>>
    /\ UNCHANGED <<served, uri, cert, args, others>>

\* _create_session, lines 250-257: _config_headers; the session of _fetch_config
\* goes on to the config request, the second one becomes self._session
SessionHeaders ==
    /\ pc = "resolved"
    /\ auth' = ConfigHeaders(props, auth)
    /\ pc' = IF ctx = "boot" THEN "cfgsend" ELSE "idle"
    /\ ctx' = IF ctx = "boot" THEN "boot" ELSE "ready"
    /\ UNCHANGED <<caller, props, entry, granted, call, hookLevel, trace,
                   last, outcome, snap>>
    /\ UNCHANGED <<served, uri, cert, args, others>>

\* _fetch_config, line 318: the GET of the config endpoint
FetchConfigSend ==
    /\ pc = "cfgsend"
    /\ trace' = Append(trace, Ev("req", FETCH_CONFIG, 0))
    /\ pc' = "cfgwait"
    /\ UNCHANGED <<ctx, caller, props, auth, entry, granted, call, hookLevel,
                   last, outcome, snap>>
    /\ UNCHANGED <<served, uri, cert, args, others>>

\* _fetch_config, lines 323-331, then __init__ line 232
FetchConfigOK ==
    /\ pc = "cfgwait"
    /\ \E doc \in docs :
         LET config == MergeConfig(doc.defaults, props, doc.overrides) IN
         /\ served' = doc
         /\ props' = config
         /\ uri' = config[URI]
    /\ trace' = Append(trace, Ev("resp", FETCH_CONFIG, 200))
    /\ pc' = "create"
    /\ ctx' = "final"
    /\ UNCHANGED <<caller, auth, entry, granted, call, hookLevel, last, outcome, snap>>
    /\ UNCHANGED <<cert, args, others>>

\* _fetch_config, lines 319-322: no retry wrapper, the exception ends __init__
FetchConfigError ==
    /\ pc = "cfgwait"
    /\ \E code \in ErrorCodes, body \in Bodies :
         LET r == HandleNon200Response(code, body, ErrorHandler(FETCH_CONFIG)) IN
         /\ last' = [fn |-> FETCH_CONFIG, code |-> code, body |-> body,
                     selected |-> r.selected, exc |-> r.exc, msg |-> r.msg]
         /\ trace' = Append(trace, Ev("resp", FETCH_CONFIG, code))
         /\ outcome' = Raised(r)
    /\ pc' = "failed"
    /\ UNCHANGED <<ctx, caller, props, auth, entry, granted, call, hookLevel, snap>>
    /\ UNCHANGED <<served, uri, cert, args, others>>

----------------------------------------------------------------------------
(* Catalog operations, lines 480-706 *)

\* the caller calls a public operation of the constructed catalog; the
\* operation raises at once when its identifier arguments are rejected, which
\* no retry wrapper retries
Call ==
    /\ pc = "idle"
    /\ \E op \in Ops : \E a \in ArgsOf(op) :
         LET error == IdentifierError(op, a) IN
         /\ call' = Enter(op, 1)
         /\ args' = a
         /\ IF error # NoVal
            THEN /\ pc' = "done"
                 /\ outcome' = [kind |-> "raise", exc |-> error, msg |-> IdentifierMsg]
            ELSE /\ pc' = "send"
                 /\ outcome' = NoOutcome
    /\ trace' = <<>>
    /\ last' = NoLast
    /\ snap' = [token |-> props[TOKEN], auth |-> auth]
    /\ granted' = NoVal
    /\ hookLevel' = "outer"
    /\ UNCHANGED <<ctx, caller, props, auth, entry>>
    /\ UNCHANGED <<served, uri, cert, others>>

\* self._session.get / post / delete of the running function
SendRequest ==
    /\ pc = "send"
    /\ trace' = Append(trace, Ev("req", call.fn, 0))
    /\ pc' = "await"
    /\ UNCHANGED <<ctx, caller, props, auth, entry, granted, call, hookLevel,
                   last, outcome, snap>>
    /\ UNCHANGED <<served, uri, cert, args, others>>

\* raise_for_status() passes: the function returns, except rename_table,
\* which goes on to self.load_table(to_identifier) (line 604)
ResponseOK ==
    /\ pc = "await"
    /\ trace' = Append(trace, Ev("resp", call.fn, 200))
    /\ IF call.fn = "rename_table"
       THEN /\ call' = [call EXCEPT !.inner = 1, !.fn = "load_table"]
            /\ pc' = "send"
            /\ UNCHANGED <<hookLevel, outcome>>
       ELSE Finish(Returned)
    /\ UNCHANGED <<ctx, caller, props, auth, entry, granted, last, snap>>
    /\ UNCHANGED <<served, uri, cert, args, others>>

\* raise_for_status() raises HTTPError: _handle_non_200_response with the
\* error handler of the running function, then the retry wrappers
ResponseError ==
    /\ pc = "await"
    /\ \E code \in ErrorCodes, body \in Bodies :
         LET r == HandleNon200Response(code, body, ErrorHandler(call.fn)) IN
         /\ last' = [fn |-> call.fn, code |-> code, body |-> body,
                     selected |-> r.selected, exc |-> r.exc, msg |-> r.msg]
         /\ trace' = Append(trace, Ev("resp", call.fn, code))
         /\ Raise(Raised(r))
    /\ UNCHANGED <<ctx, caller, props, auth, entry, granted, snap>>
    /\ UNCHANGED <<served, uri, cert, args, others>>

\* mutant: the wrapper has no before_sleep hook, the retry runs on the old token
RetryHook_NoRefresh ==
    /\ pc = "hook"
    /\ HookDone
    /\ UNCHANGED <<ctx, caller, props, auth, entry, granted, trace, last, snap>>
    /\ UNCHANGED <<served, uri, cert, args, others>>

\* _retry_hook, lines 124-126: rest_catalog._refresh_token() with no arguments
RetryHook ==
    /\ pc = "hook"
    /\ LET r == RefreshToken(props, auth, NoVal) IN
       /\ props' = r.props
       /\ auth' = r.auth
       /\ trace' = trace \o <<Ev("refresh", hookLevel, 0)>>
                         \o (IF r.wait THEN <<Ev("req", FETCH_TOKEN, 0)>> ELSE <<>>)
       /\ IF r.wait
          THEN pc' = "tokwait" /\ UNCHANGED <<call, hookLevel, outcome>>
          ELSE HookDone
    /\ UNCHANGED <<ctx, caller, entry, granted, last, snap>>
    /\ UNCHANGED <<served, uri, cert, args, others>>

\* the call returned or raised to the caller
Return ==
    /\ pc = "done"
    /\ pc' = "idle"
    /\ call' = NoCall
    /\ trace' = <<>>
    /\ last' = NoLast
    /\ outcome' = NoOutcome
    /\ snap' = NoSnap
    /\ granted' = NoVal
    /\ hookLevel' = "outer"
    /\ args' = NoArgs
    /\ UNCHANGED <<ctx, caller, props, auth, entry>>
    /\ UNCHANGED <<served, uri, cert, others>>

Next ==
    \/ CreateSession
    \/ TokenGranted
    \/ TokenRefused
    \/ SessionHeaders
    \/ FetchConfigSend
    \/ FetchConfigOK
    \/ FetchConfigError
    \/ Call
    \/ SendRequest
    \/ ResponseOK
    \/ ResponseError
    \/ RetryHook
    \/ Return

Spec == Init /\ [][Next]_vars

\* construction alone, over the wider inputs
InitConstruct ==
    /\ pc = "create"
    /\ ctx = "boot"
    /\ caller \in ConstructCallerProps
    /\ props = caller
    /\ auth = NoVal
    /\ entry = Empty
    /\ granted = NoVal
    /\ call = NoCall
    /\ hookLevel = "outer"
    /\ trace = <<>>
    /\ last = NoLast
    /\ outcome = NoOutcome
    /\ snap = NoSnap
    /\ docs = ConstructDocs
    /\ served = NoDoc
    /\ uri = caller[URI]
    /\ cert = <<>>
    /\ args = NoArgs
    /\ input = NoInput
    /\ output = NoOutput
    /\ threads = NoThreads

NextConstruct ==
    \/ CreateSession
    \/ TokenGranted
    \/ TokenRefused
    \/ SessionHeaders
    \/ FetchConfigSend
    \/ FetchConfigOK
    \/ FetchConfigError

SpecConstruct == InitConstruct /\ [][NextConstruct]_vars

----------------------------------------------------------------------------
(* Two callers on one constructed client.  The client object, its properties *)
(* and its session are shared; nothing in the class takes a lock.  Each      *)
(* caller runs single-request operations through the retry wrapper, and the  *)
(* refresh of the retry hook is split at the points where another thread can *)
(* run: the token request (network I/O), the store of line 463, the read of  *)
(* line 466 and the header write of line 467.                                *)

Callers == {1, 2}
ConcOps == {"load_table", "list_tables"}

Thread(p, o, a, t) == [pc |-> p, op |-> o, att |-> a, token |-> t]
IdleThread == Thread("idle", NoVal, 0, NoVal)

\* the single-caller variables, which the two-caller steps leave alone
clientState == <<pc, ctx, caller, entry, granted, call, hookLevel, trace, last,
                   outcome, snap, served, uri, cert, args, docs>>
singleCaller == <<clientState, input, output>>

\* a client constructed against a server with an empty config document, by a
\* caller that passed no Authorization header of its own
InitConc ==
    /\ pc = "idle"
    /\ ctx = "ready"
    /\ caller \in {c \in CallerProps : c[HEADER_AUTH] = NoVal}
    /\ \E tok \in (IF caller[TOKEN] # NoVal THEN {caller[TOKEN]}
                   ELSE IF caller[CREDENTIAL] # NoVal THEN AccessTokens
                   ELSE {NoVal}) :
         /\ props = [caller EXCEPT ![TOKEN] = tok]
         /\ auth = SetAuth(tok, NoVal)
    /\ entry = caller
    /\ granted = NoVal
    /\ call = NoCall
    /\ hookLevel = "outer"
    /\ trace = <<>>
    /\ last = NoLast
    /\ outcome = NoOutcome
    /\ snap = NoSnap
    /\ docs = ConfigDocs
    /\ served = [defaults |-> Empty, overrides |-> Empty]
    /\ uri = caller[URI]
    /\ cert = <<>>
    /\ args = NoArgs
    /\ input = NoInput
    /\ output = NoOutput
    /\ threads = [t \in Callers |-> IdleThread]

\* caller t calls an operation: attempt 1 of its retry wrapper
ConcCall(t) ==
    /\ threads[t].pc = "idle"
    /\ \E op \in ConcOps : threads' = [threads EXCEPT ![t] = Thread("send", op, 1, NoVal)]
    /\ UNCHANGED <<props, auth, singleCaller>>

\* self._session.get of the operation
ConcSend(t) ==
    /\ threads[t].pc = "send"
    /\ threads' = [threads EXCEPT ![t].pc = "await"]
    /\ UNCHANGED <<props, auth, singleCaller>>

\* the operation returns
ConcResponseOK(t) ==
    /\ threads[t].pc = "await"
    /\ threads' = [threads EXCEPT ![t] = IdleThread]
    /\ UNCHANGED <<props, auth, singleCaller>>

\* _handle_non_200_response raises; the wrapper retries on
\* AuthorizationExpiredError before its last attempt, else the caller gets it
ConcResponseError(t) ==
    /\ threads[t].pc = "await"
    /\ \E code \in ErrorCodes, body \in Bodies :
         LET r == HandleNon200Response(code, body, ErrorHandler(threads[t].op)) IN
         threads' = [threads EXCEPT ![t] =
                        IF RetryIf(r.exc) /\ ~ShouldStop(threads[t].att)
                        THEN [@ EXCEPT !.pc = "hook"]
                        ELSE IdleThread]
    /\ UNCHANGED <<props, auth, singleCaller>>

\* _retry_hook, _refresh_token lines 459-463: no initial token; with a
\* credential _fetch_access_token posts to the token endpoint
ConcHook(t) ==
    /\ threads[t].pc = "hook"
    /\ threads' = [threads EXCEPT ![t].pc =
                      IF props[CREDENTIAL] # NoVal THEN "tokwait" ELSE "read"]
    /\ UNCHANGED <<props, auth, singleCaller>>

\* line 463: self.properties[TOKEN] = the access token returned
ConcTokenGranted(t) ==
    /\ threads[t].pc = "tokwait"
    /\ \E access_token \in AccessTokens : props' = [props EXCEPT ![TOKEN] = access_token]
    /\ threads' = [threads EXCEPT ![t].pc = "read"]
    /\ UNCHANGED <<auth, singleCaller>>

\* lines 305-308: the token endpoint answered with an error, which leaves
\* the hook and the wrapper
ConcTokenRefused(t) ==
    /\ threads[t].pc = "tokwait"
    /\ threads' = [threads EXCEPT ![t] = IdleThread]
    /\ UNCHANGED <<props, auth, singleCaller>>

\* line 466: token := self.properties.get(TOKEN)
ConcReadToken(t) ==
    /\ threads[t].pc = "read"
    /\ threads' = [threads EXCEPT ![t] =
                      IF Truthy(props[TOKEN])
                      THEN [@ EXCEPT !.pc = "write", !.token = props[TOKEN]]
                      ELSE Thread("send", @.op, @.att + 1, NoVal)]
    /\ UNCHANGED <<props, auth, singleCaller>>

\* line 467: session.headers["Authorization"] = "Bearer " + token; the hook
\* returns and the wrapper runs the operation again
ConcWriteHeader(t) ==
    /\ threads[t].pc = "write"
    /\ auth' = Bearer(threads[t].token)
    /\ threads' = [threads EXCEPT ![t] = Thread("send", @.op, @.att + 1, NoVal)]
    /\ UNCHANGED <<props, singleCaller>>

NextConc ==
    \E t \in Callers :
        \/ ConcCall(t)
        \/ ConcSend(t)
        \/ ConcResponseOK(t)
        \/ ConcResponseError(t)
        \/ ConcHook(t)
        \/ ConcTokenGranted(t)
        \/ ConcTokenRefused(t)
        \/ ConcReadToken(t)
        \/ ConcWriteHeader(t)

SpecConc == InitConc /\ [][NextConc]_vars

----------------------------------------------------------------------------
(* The identifier codec and the credential split as functions of their      *)
(* argument, on a constructed client                                         *)

SPLIT_FOR_PATH == "_split_identifier_for_path"
SPLIT_FOR_JSON == "_split_identifier_for_json"

\* the strings of up to four characters over an alphabet
StringsOver(alphabet) ==
    {<<>>} \cup {<<a>> : a \in alphabet}
           \cup {<<a, b>> : a \in alphabet, b \in alphabet}
           \cup {<<a, b, c>> : a \in alphabet, b \in alphabet, c \in alphabet}
           \cup {<<a, b, c, d>> : a \in alphabet, b \in alphabet, c \in alphabet,
                                  d \in alphabet}

CodecSegments ==
    {<<>>, <<"a">>, <<"b">>, <<"a", "b">>, <<NAMESPACE_SEPARATOR>>, <<"a", DOT>>}

\* tuples of up to three segments
CodecTuples ==
    {<<>>} \cup {<<x>> : x \in CodecSegments}
           \cup {<<x, y>> : x \in CodecSegments, y \in CodecSegments}
           \cup {<<x, y, z>> : x \in CodecSegments, y \in CodecSegments,
                               z \in CodecSegments}

CodecIdentifiers ==
    {TupleIdentifier(t) : t \in CodecTuples}
        \cup {StrIdentifier(c) : c \in StringsOver({"a", DOT, NAMESPACE_SEPARATOR})}

CodecCredentials == StringsOver({"a", SEMICOLON})

\* self.name: the empty name, and a name that is also a segment
CodecNames == {<<>>, <<"a">>}

CodecInputs ==
    {[fn |-> f, identifier |-> i, credential |-> <<>>, name |-> <<>>] :
        f \in {SPLIT_FOR_PATH, SPLIT_FOR_JSON}, i \in CodecIdentifiers}
    \cup {[fn |-> FETCH_TOKEN, identifier |-> NoInput.identifier, credential |-> c,
           name |-> <<>>] :
              c \in CodecCredentials}
    \cup {[fn |-> f, identifier |-> i, credential |-> <<>>, name |-> n] :
              f \in {"load_table", "create_table"}, i \in CodecIdentifiers,
              n \in CodecNames}

InitCodec ==
    /\ pc = "idle"
    /\ ctx = "ready"
    /\ caller = [Empty EXCEPT ![URI] = "u1"]
    /\ props = caller
    /\ auth = NoVal
    /\ entry = caller
    /\ granted = NoVal
    /\ call = NoCall
    /\ hookLevel = "outer"
    /\ trace = <<>>
    /\ last = NoLast
    /\ outcome = NoOutcome
    /\ snap = NoSnap
    /\ docs = ConfigDocs
    /\ served = [defaults |-> Empty, overrides |-> Empty]
    /\ uri = caller[URI]
    /\ cert = <<>>
    /\ args = NoArgs
    /\ input \in CodecInputs
    /\ output = NoOutput
    /\ threads = NoThreads

Result(r) == IF r.exc # NoVal THEN "raise" ELSE "return"

\* self._split_identifier_for_path(identifier)
SplitForPath ==
    /\ input.fn = SPLIT_FOR_PATH
    /\ output = NoOutput
    /\ LET r == SplitIdentifierForPath(input.identifier) IN
       output' = [NoOutput EXCEPT !.kind = Result(r), !.exc = r.exc,
                                  !.path = r.namespace, !.table = r.table]
    /\ UNCHANGED <<props, auth, threads, input, clientState>>

\* self._split_identifier_for_json(identifier)
SplitForJson ==
    /\ input.fn = SPLIT_FOR_JSON
    /\ output = NoOutput
    /\ LET r == SplitIdentifierForJson(input.identifier) IN
       output' = [NoOutput EXCEPT !.kind = Result(r), !.exc = r.exc,
                                  !.namespace = r.namespace, !.table = r.table]
    /\ UNCHANGED <<props, auth, threads, input, clientState>>

\* self._fetch_access_token(session, credential), up to the data it posts
FetchAccessTokenData ==
    /\ input.fn = FETCH_TOKEN
    /\ output = NoOutput
    /\ LET r == TokenRequestData(input.credential) IN
       output' = [NoOutput EXCEPT !.kind = Result(r), !.exc = r.exc,
                                  !.client_id = r.client_id,
                                  !.client_secret = r.client_secret]
    /\ UNCHANGED <<props, auth, threads, input, clientState>>

\* load_table, lines 560-572, answered 200: the path of its GET and the
\* identifier of the Table it returns
LoadTable ==
    /\ input.fn = "load_table"
    /\ output = NoOutput
    /\ LET identifier_tuple == IdentifierToTupleWithoutCatalog(input.identifier, input.name)
           r == LoadTablePath(input.name, input.identifier)
       IN output' = IF r.exc # NoVal
                    THEN [NoOutput EXCEPT !.kind = "raise", !.exc = r.exc]
                    ELSE [NoOutput EXCEPT !.kind = "return",
                                          !.path = r.namespace, !.table = r.table,
                                          !.identifier =
                                              ResponseToTable(input.name, identifier_tuple)]
    /\ UNCHANGED <<props, auth, threads, input, clientState>>

\* create_table, lines 481-515, answered 200: the namespace of its POST and the
\* identifier of the Table it returns
CreateTable ==
    /\ input.fn = "create_table"
    /\ output = NoOutput
    /\ LET r == SplitIdentifierForPath(input.identifier)
       IN output' = IF r.exc # NoVal
                    THEN [NoOutput EXCEPT !.kind = "raise", !.exc = r.exc]
                    ELSE [NoOutput EXCEPT !.kind = "return",
                                          !.path = r.namespace, !.table = r.table,
                                          !.identifier =
                                              ResponseToTable(input.name,
                                                  IdentifierToTuple(input.identifier))]
    /\ UNCHANGED <<props, auth, threads, input, clientState>>

\* _commit_table, lines 621-624, for the table that was returned: the request
\* carries a TableIdentifier whose namespace is every segment of the table's
\* identifier but the last and whose name is the last segment
CommitTable ==
    /\ input.fn \in {"load_table", "create_table"}
    /\ output.kind = "return"
    /\ ~output.committed
    /\ LET r == SplitTableIdentifierForPath(
                    [namespace |-> AllButLast(output.identifier),
                     name |-> Last(output.identifier)])
       IN output' = [output EXCEPT !.committed = TRUE,
                                   !.commit_path = r.namespace,
                                   !.commit_table = r.table]
    /\ UNCHANGED <<props, auth, threads, input, clientState>>

NextCodec ==
    \/ SplitForPath
    \/ SplitForJson
    \/ FetchAccessTokenData
    \/ LoadTable
    \/ CreateTable
    \/ CommitTable

SpecCodec == InitCodec /\ [][NextCodec]_vars

TypeOK ==
    /\ pc \in PcValues
    /\ ctx \in {"boot", "final", "ready"}
    /\ caller \in CallerProps \cup ConstructCallerProps
    /\ call.op \in Ops \cup {NoVal}
    /\ call.att \in 0..StopAfterAttempt
    /\ call.inner \in 0..StopAfterAttempt
    /\ hookLevel \in {"outer", "inner"}
    /\ outcome.kind \in {"none", "return", "raise"}
    /\ docs \in {ConfigDocs, ConstructDocs}
    /\ served \in docs \cup {NoDoc}
    /\ uri \in {"u0", "u1", "u2"}
    /\ Len(cert) <= 2
    /\ \A i \in 1..Len(args) : args[i] \in CallIdentifiers
    /\ input \in CodecInputs \cup {NoInput}
    /\ output.kind \in {"none", "return", "raise"}
    /\ threads = NoThreads \/ DOMAIN threads = Callers

----------------------------------------------------------------------------
(* Reading the trace *)

IsCatalogReq(e) == e.ev = "req" /\ e.fn \in RequestFns
IsCatalogResp(e) == e.ev = "resp" /\ e.fn \in RequestFns
IsRefresh(e) == e.ev = "refresh"
IsTokenReq(e) == e.ev = "req" /\ e.fn = FETCH_TOKEN
IsCallEvent(e) == IsCatalogReq(e) \/ IsCatalogResp(e) \/ IsRefresh(e)

RefreshCount == Len(SelectSeq(trace, IsRefresh))
CatalogReqCount == Len(SelectSeq(trace, IsCatalogReq))
TokenReqCount == Len(SelectSeq(trace, IsTokenReq))
ReqCountOf(fn) == Len(SelectSeq(trace, LAMBDA e : e.ev = "req" /\ e.fn = fn))

\* status codes of the catalog responses of the running call, in order
RespCodes ==
    LET s == SelectSeq(trace, IsCatalogResp) IN [i \in 1..Len(s) |-> s[i].code]

\* requests, responses and refreshes of the running call, in order
CallShape ==
    LET s == SelectSeq(trace, IsCallEvent) IN [i \in 1..Len(s) |-> s[i].ev]

InCall == ctx = "ready" /\ call.op # NoVal

----------------------------------------------------------------------------
(* Claims *)

\* C1: a single-request operation whose first request is answered 419 and
\* whose request after the refresh is answered with success returns the
\* success result (no AuthorizationExpired for the caller) after exactly one
\* token refresh, which happens between the two requests.
C1_RetryThenSuccess ==
    (pc = "done" /\ call.op \in SingleOps /\ RespCodes = <<419, 200>>)
        => /\ outcome = Returned
           /\ CallShape = <<"req", "resp", "refresh", "req", "resp">>

C1_Witness ==
    /\ pc = "done"
    /\ call.op \in SingleOps
    /\ RespCodes = <<419, 200>>
    /\ outcome.kind = "return"
    /\ RefreshCount = 1

\* C2: a single-request operation answered 419 twice raises
\* AuthorizationExpired after exactly 2 requests and exactly 1 refresh.
C2_TwoExpired ==
    (pc = "done" /\ call.op \in SingleOps /\ Len(RespCodes) >= 2
       /\ RespCodes[1] = 419 /\ RespCodes[2] = 419)
        => /\ outcome.kind = "raise"
           /\ outcome.exc = AuthorizationExpiredError
           /\ CallShape = <<"req", "resp", "refresh", "req", "resp">>

\* C3: one call of purge_table or rename_table sends at most 2 requests to
\* any one catalog endpoint and refreshes the token at most once.
C3_CompositeBound ==
    (InCall /\ call.op \in CompositeOps)
        => /\ \A fn \in RequestFns : ReqCountOf(fn) <= 2
           /\ RefreshCount <= 1

\* C4: when the first request of an operation fails with a status other than
\* 419, the call has sent exactly one request, has refreshed no token, has
\* left the stored token and the Authorization header as they were, and
\* raises the error of that response, which is not AuthorizationExpired.
C4_OtherErrorsPropagate ==
    (InCall /\ Len(RespCodes) >= 1 /\ RespCodes[1] \notin {200, 419})
        => /\ pc = "done"
           /\ CatalogReqCount = 1
           /\ RefreshCount = 0
           /\ TokenReqCount = 0
           /\ props[TOKEN] = snap.token
           /\ auth = snap.auth
           /\ last.code = RespCodes[1]
           /\ outcome = Raised(last)
           /\ outcome.exc # AuthorizationExpiredError

C4_Witness ==
    /\ pc = "done"
    /\ call.op \in Ops
    /\ RespCodes = <<404>>
    /\ outcome.kind = "raise"
    /\ snap.token # NoVal

Overridden ==
    { <<"create_table", 409>>, <<"register_table", 409>>, <<"list_tables", 404>>,
      <<"load_table", 404>>, <<"drop_table", 404>>, <<"rename_table", 404>>,
      <<"rename_table", 409>>, <<"_commit_table", 409>>, <<"_commit_table", 500>>,
      <<"_commit_table", 502>>, <<"_commit_table", 504>>, <<"create_namespace", 404>>,
      <<"create_namespace", 409>>, <<"drop_namespace", 404>>,
      <<"load_namespace_properties", 404>>, <<"update_namespace_properties", 404>>,
      <<FETCH_TOKEN, 400>>, <<FETCH_TOKEN, 401>> }

\* the default table of the error taxonomy
DefaultKind(code) ==
    CASE code = 400 -> BadRequestError
      [] code = 401 -> UnauthorizedError
      [] code = 403 -> ForbiddenError
      [] code = 419 -> AuthorizationExpiredError
      [] code = 422 -> RESTError
      [] code = 501 -> NotImplementedError
      [] code = 503 -> ServiceUnavailableError
      [] code \in (500..599) \ {501, 503} -> ServerError
      [] OTHER -> RESTError

Taxonomy ==
    {BadRequestError, UnauthorizedError, ForbiddenError, NoSuchTableError,
     NoSuchNamespaceError, TableAlreadyExistsError, NamespaceAlreadyExistsError,
     CommitFailedException, AuthorizationExpiredError, RESTError,
     NotImplementedError, CommitStateUnknownException, ServiceUnavailableError,
     ServerError, OAuthError}

Misshapen(selected, body) ==
    IF selected = OAuthError THEN body # "oauth" ELSE body # "generic"

\* C7: whatever the body of an error response is, the exception raised is the
\* one selected from the status code; a body that is not JSON, or JSON of
\* another shape, only changes the message, which then holds the raw status
\* code and the raw body text.
C7_BodyNeverChangesKind ==
    last.fn \in RequestFns
        => /\ last.exc = last.selected
           /\ Misshapen(last.selected, last.body)
                  => last.msg.status = last.code /\ last.msg.text = last.body

\* C8: _commit_table raises NoSuchTableError when the table-update endpoint
\* answers 404.
C8_CommitNoSuchTable ==
    (pc = "done" /\ call.op = "_commit_table" /\ last.code = 404)
        => outcome.exc = NoSuchTableError

\* token requests sent since the running _create_session began
SessionTokenReqs ==
    LET start == CHOOSE i \in 1..Len(trace) :
                     /\ trace[i].ev = "session"
                     /\ \A j \in (i+1)..Len(trace) : trace[j].ev # "session"
    IN Cardinality({i \in start..Len(trace) : IsTokenReq(trace[i])})

Establishing == ctx \in {"boot", "final"}

C10_SuppliedTokenWinsOnRefresh ==
    (InCall /\ caller[TOKEN] # NoVal /\ RefreshCount >= 1)
        => /\ TokenReqCount = 0
           /\ props[TOKEN] = snap.token

\* every refresh of the running call was followed at once by a token request
EveryRefreshExchanges ==
    \A i \in 1..Len(trace) :
        IsRefresh(trace[i]) => (i < Len(trace) /\ IsTokenReq(trace[i+1]))

\* C10 amended: when the retry hook refreshes the token of a client whose
\* caller supplied a bearer token, the supplied token wins only if the client
\* has no credential: then no token request is sent and the stored token stays
\* what it was.  With a credential the refresh sends a token request, and a
\* successful exchange stores the access token returned in place of the
\* stored token.
C10_RefreshExchangesCredential ==
    (InCall /\ caller[TOKEN] # NoVal /\ RefreshCount >= 1)
        => IF props[CREDENTIAL] = NoVal
           THEN TokenReqCount = 0 /\ props[TOKEN] = snap.token
           ELSE /\ EveryRefreshExchanges
                /\ props[TOKEN] = IF granted = NoVal THEN snap.token ELSE granted

C10_Witness ==
    /\ InCall
    /\ caller[TOKEN] # NoVal
    /\ props[CREDENTIAL] # NoVal
    /\ snap.token = caller[TOKEN]
    /\ RefreshCount = 1
    /\ granted \in AccessTokens
    /\ props[TOKEN] = granted
    /\ props[TOKEN] # snap.token

\* __init__ returned and no operation has been called yet
Constructed == pc = "idle" /\ ctx = "ready" /\ trace # <<>>

\* override, else caller-supplied value, else default
Precedence(k) ==
    IF served.overrides[k] # NoVal THEN served.overrides[k]
    ELSE IF caller[k] # NoVal THEN caller[k]
    ELSE served.defaults[k]

\* C11 as stated: after construction the value of every property key is the
\* server override if there is one, else the caller-supplied value if there is
\* one, else the server default, and the base URI is the merged value of the
\* URI key.
C11_MergePrecedence ==
    Constructed
        => /\ \A k \in Keys : props[k] = Precedence(k)
           /\ uri = Precedence(URI)

\* C11 amended: the precedence holds for every key other than the token key,
\* and the base URI is the merged value of the URI key.  For the token key an
\* access token obtained for a credential stands in for a missing token: the
\* value is the server override, else the caller-supplied token, else the
\* access token the session of the config fetch got for the caller-supplied
\* credential, else the server default, else the access token the final
\* session got for the merged credential, else none.
C11_MergePrecedenceButToken ==
    Constructed
        => /\ \A k \in Keys \ {TOKEN} : props[k] = Precedence(k)
           /\ uri = Precedence(URI)
           /\ props[TOKEN] =
                  IF served.overrides[TOKEN] # NoVal THEN served.overrides[TOKEN]
                  ELSE IF caller[TOKEN] # NoVal THEN caller[TOKEN]
                  ELSE IF caller[CREDENTIAL] # NoVal THEN granted
                  ELSE IF served.defaults[TOKEN] # NoVal THEN served.defaults[TOKEN]
                  ELSE IF props[CREDENTIAL] # NoVal THEN granted
                  ELSE NoVal
           /\ (caller[TOKEN] = NoVal /\ props[CREDENTIAL] # NoVal
                 /\ served.overrides[TOKEN] = NoVal
                 /\ (caller[CREDENTIAL] # NoVal \/ served.defaults[TOKEN] = NoVal))
                  => granted \in AccessTokens

\* the example of the claim: defaults {a, b}, caller {b, c}, overrides {a}
C11_Witness ==
    /\ Constructed
    /\ {k \in GenericKeys : served.defaults[k] # NoVal} = {"a", "b"}
    /\ {k \in GenericKeys : caller[k] # NoVal} = {"b", "c"}
    /\ {k \in GenericKeys : served.overrides[k] # NoVal} = {"a"}
    /\ props["a"] = "override"
    /\ props["b"] = "caller"
    /\ props["c"] = "caller"
    /\ uri = props[URI]

IsConfigReq(e) == e.ev = "req" /\ e.fn = FETCH_CONFIG

\* token requests sent before the config request
TokenReqsBeforeConfig ==
    {i \in 1..Len(trace) :
        IsTokenReq(trace[i]) /\ \E j \in (i+1)..Len(trace) : IsConfigReq(trace[j])}

\* C12 as stated: during construction no token request is sent before the GET
\* of the config endpoint.
C12_NoTokenRequestBeforeConfig == TokenReqsBeforeConfig = {}

\* C12 amended: construction first builds a session for the config fetch, with
\* its own token resolution, and builds the session the client keeps after the
\* config document was fetched and merged: one token request is sent before
\* the GET of the config endpoint when the caller supplied a credential and no
\* token, none otherwise, and the token resolution of the kept session starts
\* after the 200 answer to the config GET.
C12_BootstrapSessionFirst ==
    /\ \A j \in 1..Len(trace) :
           IsConfigReq(trace[j])
               => Cardinality(TokenReqsBeforeConfig) =
                      IF caller[TOKEN] = NoVal /\ caller[CREDENTIAL] # NoVal THEN 1 ELSE 0
    /\ \A i \in 1..Len(trace) :
           trace[i] = Ev("session", "final", 0)
               => /\ \E j \in 1..(i-1) : trace[j] = Ev("resp", FETCH_CONFIG, 200)
                  /\ \A j \in 1..(i-1) : trace[j] # Ev("session", "final", 0)
    /\ (ctx = "final" /\ pc # "create")
           => \A k \in Keys \ {TOKEN} : entry[k] = Precedence(k)

C12_Witness ==
    /\ Constructed
    /\ caller[CREDENTIAL] # NoVal
    /\ Len(trace) >= 4
    /\ IsTokenReq(trace[2])
    /\ IsConfigReq(trace[4])
    /\ trace[Len(trace)] = Ev("session", "final", 0)

\* a caller is inside _refresh_token
Refreshing(t) == threads[t].pc \in {"hook", "tokwait", "read", "write"}

\* C13: with two callers on one client, in every state in which no refresh is
\* in progress the Authorization header carries the stored token.
C13_HeaderCarriesStoredToken ==
    (/\ threads # NoThreads
     /\ \A t \in Callers : ~Refreshing(t)
     /\ props[TOKEN] # NoVal)
        => auth = Bearer(props[TOKEN])

SegmentCount(identifier) == Len(IdentifierToTuple(identifier))

\* the running call was given an identifier with too few segments
TooFewSegments ==
    \/ call.op \in TableOps /\ SegmentCount(args[1]) < 2
    \/ call.op = "rename_table" /\ (SegmentCount(args[1]) < 2 \/ SegmentCount(args[2]) < 2)
    \/ call.op \in NamespaceOps /\ SegmentCount(args[1]) < 1

\* C14: a table operation (create_table, register_table, load_table,
\* drop_table, purge_table, rename_table for source and destination) called
\* with an identifier of fewer than 2 segments, and a namespace operation
\* (list_tables, create_namespace, drop_namespace, load_namespace_properties,
\* update_namespace_properties) called with fewer than 1 segment, fails with
\* an identifier error and sends no HTTP request.
C14_ShortIdentifierSendsNothing ==
    (InCall /\ TooFewSegments)
        => /\ pc = "done"
           /\ outcome.kind = "raise"
           /\ outcome.msg = IdentifierMsg
           /\ outcome.exc = IF call.op \in NamespaceOps THEN NoSuchNamespaceError
                            ELSE NoSuchTableError
           /\ trace = <<>>

C14_Witness ==
    /\ pc = "done"
    /\ call.op = "rename_table"
    /\ SegmentCount(args[1]) = 2
    /\ args[2] = StrIdentifier(<<"t">>)
    /\ outcome.exc = NoSuchTableError
    /\ trace = <<>>

\* the error kinds the status-code mapping can produce for a server response
MappedKinds ==
    {ExceptionFor(code, ErrorHandler(fn)) : code \in ErrorCodes, fn \in RequestFns}

\* C15: the error kind of a rejected identifier is none of the kinds the
\* status-code mapping can produce for a server response.
C15_IdentifierErrorIsDistinct ==
    (pc = "done" /\ outcome.msg = IdentifierMsg) => outcome.exc \notin MappedKinds

\* the segments of the identifier given to the codec
InputSegments == IdentifierToTuple(input.identifier)

HasSeparator(segment) == \E i \in 1..Len(segment) : segment[i] = NAMESPACE_SEPARATOR

\* an identifier of two or more segments, none of which holds the separator
WellFormed ==
    /\ Len(InputSegments) >= 2
    /\ \A i \in 1..Len(InputSegments) : ~HasSeparator(InputSegments[i])

\* C16: for a string or tuple identifier of two or more segments, none of
\* which holds the 0x1F separator, the namespace path of the path encoder
\* split at 0x1F, followed by the leaf, is the segment list, and the JSON
\* encoder gives namespace = all segments but the last and name = the last.
C16_RoundTrip ==
    /\ (input.fn = SPLIT_FOR_PATH /\ output # NoOutput /\ WellFormed)
           => /\ output.kind = "return"
              /\ Split(output.path, NAMESPACE_SEPARATOR) \o <<output.table>> = InputSegments
    /\ (input.fn = SPLIT_FOR_JSON /\ output # NoOutput /\ WellFormed)
           => /\ output.kind = "return"
              /\ output.namespace \o <<output.table>> = InputSegments
              /\ Len(output.namespace) = Len(InputSegments) - 1

C16_Witness ==
    /\ input.fn = SPLIT_FOR_PATH
    /\ input.identifier = TupleIdentifier(<< <<"a">>, <<"a", DOT>>, <<"b">> >>)
    /\ output.kind = "return"
    /\ output.path = <<"a", NAMESPACE_SEPARATOR, "a", DOT>>
    /\ output.table = <<"b">>

\* the position of the first colon of the credential
FirstColon ==
    CHOOSE i \in 1..Len(input.credential) :
        /\ input.credential[i] = SEMICOLON
        /\ \A j \in 1..(i-1) : input.credential[j] # SEMICOLON

\* C17: a credential with one or more colons is split at its first colon into
\* client id and secret, the secret keeping any further colons, and the token
\* request carries these values; a credential without a colon gives no client
\* id and the whole string as the secret.
C17_SplitAtFirstColon ==
    (input.fn = FETCH_TOKEN /\ output # NoOutput)
        => /\ output.kind = "return"
           /\ IF \E i \in 1..Len(input.credential) : input.credential[i] = SEMICOLON
              THEN /\ output.client_id = <<SubSeq(input.credential, 1, FirstColon - 1)>>
                   /\ output.client_secret =
                          SubSeq(input.credential, FirstColon + 1, Len(input.credential))
              ELSE /\ output.client_id = <<>>
                   /\ output.client_secret = input.credential

IsReq(e) == e.ev = "req"

\* the caller gave one half of the client certificate pair
HalfPair == (caller[CERT] # NoVal) # (caller[KEY] # NoVal)

\* C18: constructing a client whose TLS client properties hold a certificate
\* without a key, or a key without a certificate, fails before any request is
\* sent.
C18_HalfPairFailsConstruction ==
    HalfPair => (SelectSeq(trace, IsReq) = <<>> /\ pc # "idle")

\* C19: the config fetch is not retried: one GET of the config endpoint is
\* sent, and when it is answered 419 construction fails with
\* AuthorizationExpired, without a token refresh and without a second config
\* request.
C19_ConfigFetchNotRetried ==
    /\ ctx # "ready" => ReqCountOf(FETCH_CONFIG) <= 1
    /\ (last.fn = FETCH_CONFIG /\ last.code = 419)
           => /\ pc = "failed"
              /\ outcome.kind = "raise"
              /\ outcome.exc = AuthorizationExpiredError
              /\ ReqCountOf(FETCH_CONFIG) = 1
              /\ RefreshCount = 0
              /\ trace[Len(trace)] = Ev("resp", FETCH_CONFIG, 419)

\* between operations: __init__ has returned, or an operation has ended
AtRest == ctx = "ready" /\ pc \in {"idle", "done"}

\* C20 as stated: with a single caller, after construction and after every
\* operation, a stored token is the one the Authorization header carries.
C20_HeaderCarriesStoredToken ==
    (AtRest /\ props[TOKEN] # NoVal) => auth = Bearer(props[TOKEN])

\* C20 amended: that holds for a client without a header.Authorization
\* property.  With one, the header is the value of that property after
\* construction, and after an operation it is either still that value or, once
\* a refresh has written the header, 'Bearer ' followed by the stored token.
C20_HeaderCarriesTokenOrPassthrough ==
    /\ (AtRest /\ props[TOKEN] # NoVal /\ props[HEADER_AUTH] = NoVal)
           => auth = Bearer(props[TOKEN])
    /\ (AtRest /\ props[TOKEN] # NoVal /\ props[HEADER_AUTH] # NoVal)
           => auth \in {props[HEADER_AUTH], Bearer(props[TOKEN])}
    /\ (Constructed /\ props[HEADER_AUTH] # NoVal) => auth = props[HEADER_AUTH]
    /\ (AtRest /\ pc = "done" /\ props[HEADER_AUTH] # NoVal /\ RefreshCount = 0)
           => auth = snap.auth

C20_Witness ==
    /\ pc = "done"
    /\ ctx = "ready"
    /\ props[HEADER_AUTH] # NoVal
    /\ snap.auth = props[HEADER_AUTH]
    /\ RefreshCount = 1
    /\ granted \in AccessTokens
    /\ props[TOKEN] = granted
    /\ auth = Bearer(granted)

\* C21: within one rename_table call, once the rename POST was answered with
\* success no further rename POST is sent, whatever the load of the
\* destination table is answered.
C21_RenamePostNotResent ==
    (InCall /\ call.op = "rename_table")
        => \A i \in 1..Len(trace) : \A j \in (i+1)..Len(trace) :
               ~(/\ trace[i] = Ev("resp", "rename_table", 200)
                 /\ trace[j] = Ev("req", "rename_table", 0))

IsTokenError(e) == e.ev = "resp" /\ e.fn = FETCH_TOKEN /\ e.code # 200

\* the first request of the running call was answered 419 and the token
\* endpoint answered the refresh that followed with an error status
RefreshFailed ==
    /\ InCall
    /\ Len(RespCodes) >= 1
    /\ RespCodes[1] = 419
    /\ SelectSeq(trace, IsTokenError) # <<>>

\* C22: when the first request of a single-request operation is answered 419
\* and the token endpoint answers the refresh with an error status, the
\* second attempt is never sent, the stored token and the Authorization
\* header keep the values they had before the refresh, and the call raises
\* the error of the refresh.
C22_FailedRefreshEndsCall ==
    (RefreshFailed /\ call.op \in SingleOps)
        => /\ pc = "done"
           /\ CatalogReqCount = 1
           /\ TokenReqCount = 1
           /\ props[TOKEN] = snap.token
           /\ auth = snap.auth
           /\ last.fn = FETCH_TOKEN
           /\ outcome = Raised(last)

C22_Witness ==
    /\ RefreshFailed
    /\ call.op = "load_table"
    /\ pc = "done"
    /\ snap.token # NoVal
    /\ last.code = 401
    /\ outcome.exc = OAuthError
    /\ CallShape = <<"req", "resp", "refresh">>

IsSession(e) == e.ev = "session"

SessionCount == Len(SelectSeq(trace, IsSession))

\* the caller gave a credential and no token
CredentialOnly == caller[CREDENTIAL] # NoVal /\ caller[TOKEN] = NoVal

\* C23 as stated: constructing a client with a credential and no token creates
\* two sessions and sends exactly one token request, and the token the final
\* session starts from and keeps is the access token the first session stored.
C23_FinalSessionReusesToken ==
    (Constructed /\ CredentialOnly)
        => /\ SessionCount = 2
           /\ TokenReqCount = 1
           /\ entry[TOKEN] = granted
           /\ props[TOKEN] = granted

\* C23 amended: at no point of such a construction has more than one token
\* request been sent, and a completed one created two sessions and sent
\* exactly one, in its first session.  The final session exchanges nothing
\* because it finds a token in the merged properties: the token of the server
\* overrides if they have one, else the access token the first session stored.
C23_OneTokenRequest ==
    CredentialOnly
        => /\ TokenReqCount <= 1
           /\ Constructed
                  => /\ SessionCount = 2
                     /\ TokenReqCount = 1
                     /\ IsTokenReq(trace[2])
                     /\ entry[TOKEN] = IF served.overrides[TOKEN] # NoVal
                                       THEN served.overrides[TOKEN]
                                       ELSE granted
                     /\ props[TOKEN] = entry[TOKEN]

C23_Witness ==
    /\ Constructed
    /\ CredentialOnly
    /\ served.overrides[TOKEN] = NoVal
    /\ served.defaults[TOKEN] = "td"
    /\ SessionCount = 2
    /\ TokenReqCount = 1
    /\ granted \in AccessTokens
    /\ props[TOKEN] = granted
    /\ auth = Bearer(granted)

\* the table handle was used for a commit
Committed == output.kind = "return" /\ output.committed

\* C24: for every catalog name, the empty name included, and every table
\* identifier, a commit addressed by a TableIdentifier built from the
\* identifier of the table that load_table or create_table returned is sent to
\* the namespace path and table name that load_table uses for that table.
C24_CommitPathIsLoadPath ==
    /\ (input.fn = "load_table" /\ Committed)
           => /\ output.commit_path = output.path
              /\ output.commit_table = output.table
    /\ (input.fn = "create_table" /\ Committed)
           => LET r == LoadTablePath(input.name, TupleIdentifier(output.identifier))
              IN /\ output.commit_path = r.namespace
                 /\ output.commit_table = r.table

====
